---- MODULE Spec2Model ----
(***************************************************************************)
(* Model of the single-model inference worker of AuraNexus.                *)
(*                                                                         *)
(*   - the Generation Engine (LlmManager, src-tauri/src/llm.rs): new,      *)
(*     generate and is_ready, translated from the source;                  *)
(*   - the Worker Coordinator (dedicated thread, unbounded FIFO queue,     *)
(*     one-shot reply channels): its code is not among the source files,   *)
(*     so it is modelled from sections 4.2 and 5 of the specification.     *)
(*                                                                         *)
(* Text is a sequence of one-character strings.  Tokens are small naturals.*)
(***************************************************************************)
EXTENDS Naturals, Integers, Sequences, FiniteSets, TLC

VARIABLES
    engine,       \* the LlmManager: <<>> before construction, else <<[model, n_ctx]>>
    call,         \* SpecGen: the direct call of generate that last returned, <<>> or <<record>>
    ctxLast,      \* history: what the Execution Context of the latest call held when dropped
    first,        \* history: the first direct call made on the Engine, <<>> or <<record>>
    earlier,      \* history: how the calls before the latest one ended, a subset of BOOLEAN
    messages,     \* MemoryManager.messages, oldest first
    memClock,     \* the clock that Utc::now() reads in add_message, in ticks
    memBefore,    \* history: messages before the latest operation on the MemoryManager
    memOp,        \* history: the latest operation on the MemoryManager
    memories,     \* MemoryStore.memories: a function from the ids stored to their MemoryItem
    usedIds,      \* the ids that Uuid::new_v4 has returned so far
    storeOp,      \* the call on the MemoryStore that has not returned yet: its arguments,
                  \* its result and, as history, the store before it
    splitter,     \* the SimpleTextSplitter, <<>> or <<[chunk_size, chunk_overlap]>>
    splitCall,    \* the call of split_text that has not returned yet, <<>> or <<record>>
    current_mode,           \* AppState.current_mode
    conversation_history,   \* AppState.conversation_history
    history_lock,           \* who holds the mutex of conversation_history, or "free"
    bridge_lock,            \* who holds the mutex of python_bridge, or "free"
    cmd,                    \* per thread of the runtime: the command it runs and its locals
    ncalls,                 \* commands started so far
    appended,               \* history: the entries pushed since the latest clear
    worker,       \* the dedicated thread: "unspawned", "constructing", "idle"
                  \*   (blocked in the receive), "serving", "exited"
    queue,        \* the unbounded FIFO queue of Worker Messages
    inService,    \* the Generate message in service: <<>> or <<message>>
    caller,       \* per caller: "idle", "waiting", "abandoned", "done"
    chan,         \* per caller, its one-shot reply channel: [st, val]
    outcome,      \* per caller, what it resumed with: <<>> or <<[tag, val]>>
    msgOf,        \* per caller, the message it submitted: <<>> or <<message>>
    shutdownSent, \* the control path has sent Shutdown
    loadEnv,      \* what the environment answered during construction: <<>> or <<record>>
    enqLog,       \* history: callers in the order their message entered the queue
    deqLog,       \* history: callers in the order their message was dequeued
    execLog,      \* history: callers in the order Engine.generate was started for them
    replyLog,     \* history: callers in the order a reply was sent (or discarded)
    running,      \* history: callers whose Engine.generate is executing now
    dropped       \* history: callers whose message was dropped with the queue

vars == <<engine, call, ctxLast, first, earlier, messages, memClock, memBefore, memOp,
         memories, usedIds, storeOp, splitter, splitCall,
         current_mode, conversation_history, history_lock, bridge_lock, cmd, ncalls,
         appended, worker, queue, inService, caller, chan, outcome, msgOf,
          shutdownSent, loadEnv, enqLog, deqLog, execLog, replyLog, running, dropped>>


(***************************************************************************)
(* Bounds of the model.                                                    *)
(***************************************************************************)
\* llm.rs:111 sets max_tokens = 512; the model runs the same loop with a small budget.
max_tokens == 2
\* llm.rs:36 sets n_ctx = 4096; scaled with max_tokens so that a long prompt can fill the window.
n_ctx == 4
\* Longest prompt, in characters.
MaxPromptLen == 2
\* Number of concurrent callers of the Coordinator.
NumCallers == 2
\* memory.rs:21 sets max_messages: 50; the model keeps a shorter buffer.
max_messages == 3
\* Number of add_message calls in a run (ticks of the clock).
MaxAdds == 5
\* main.rs:143 keeps the last 20 entries, 10 turns of two; the model keeps fewer turns.
HistoryPairs == 1
\* Number of commands started in a run.
MaxCalls == 3
\* Largest chunk_size of a SimpleTextSplitter, in bytes.
MaxChunkSize == 3
\* Longest text given to split_text, in characters.
MaxTextLen == 4

(***************************************************************************)
(* Vocabulary of the loaded model (llama.cpp side, opaque to llm.rs).      *)
(***************************************************************************)
BosToken == 0
EogToken == 1
TokA     == 2      \* detokenizes to "a"
TokSpace == 3      \* detokenizes to " "
TokBad   == 4      \* token_to_str fails on it (invalid UTF-8 piece)
BosTokens == {BosToken}
EogTokens == {EogToken}
TextTokens == {TokA, TokSpace}
BadTokens == {TokBad}
\* tokens the sampler can select
SampleTokens == EogTokens \cup TextTokens \cup BadTokens

Whitespace == {" "}
\* "NUL" stands for an interior NUL byte, which str_to_token rejects
PromptChars == {"a", " ", "NUL"}

RECURSIVE SeqsUpTo(_, _)
SeqsUpTo(S, n) ==
    IF n = 0 THEN {<<>>}
    ELSE LET shorter == SeqsUpTo(S, n - 1)
         IN  shorter \cup {Append(s, x) : s \in {t \in shorter : Len(t) = n - 1}, x \in S}

Prompts == SeqsUpTo(PromptChars, MaxPromptLen)

Max(a, b) == IF a >= b THEN a ELSE b

(***************************************************************************)
(* The loaded model, as llm.rs sees it through llama_cpp_2.                *)
(* weights maps the last token of the context to the arg-max next token:   *)
(* greedy sampling is a function of the context and of nothing else.       *)
(***************************************************************************)
ContextTokens == BosTokens \cup TextTokens \cup BadTokens
Weights == [ContextTokens -> SampleTokens]
Models == [add_bos : BOOLEAN, weights : Weights]

\* llm.rs:123 self.model.is_eog_token(new_token_id)
is_eog_token(t) == t \in EogTokens

\* llm.rs:129 self.model.token_to_str(new_token_id, Special::Tokenize): special
\* tokens are rendered as their markup, a piece that is no valid text is an error
token_to_str(t) ==
    IF t = TokA THEN [ok |-> TRUE, piece |-> <<"a">>]
    ELSE IF t = TokSpace THEN [ok |-> TRUE, piece |-> <<" ">>]
    ELSE IF t \in BosTokens THEN [ok |-> TRUE, piece |-> <<"<", "s", ">">>]
    ELSE IF t \in EogTokens THEN [ok |-> TRUE, piece |-> <<"<", "/", "s", ">">>]
    ELSE [ok |-> FALSE, piece |-> <<>>]

\* the token of one prompt character
CharToken(c) == IF c = " " THEN TokSpace ELSE TokA

\* llm.rs:81-83 self.model.str_to_token(prompt, AddBos::Always): an interior NUL
\* is rejected; the BOS marker is prefixed when the vocabulary has one.
str_to_token(model, prompt) ==
    IF \E i \in 1..Len(prompt) : prompt[i] = "NUL"
    THEN [ok |-> FALSE, tokens |-> <<>>]
    ELSE [ok |-> TRUE,
          tokens |-> (IF model.add_bos THEN <<BosToken>> ELSE <<>>)
                     \o [i \in 1..Len(prompt) |-> CharToken(prompt[i])]]

\* llm.rs:120 sampler.sample(&context, -1) with LlamaSampler::greedy() (llm.rs:115):
\* the arg-max over the logits of the last decoded position of the context.
sample(model, kv) == model.weights[kv[Len(kv)]]

\* llm.rs:150 output.trim(): leading and trailing whitespace removed
RECURSIVE trim_start(_)
trim_start(s) ==
    IF s = <<>> THEN <<>>
    ELSE IF Head(s) \in Whitespace THEN trim_start(Tail(s)) ELSE s

RECURSIVE trim_end(_)
trim_end(s) ==
    IF s = <<>> THEN <<>>
    ELSE IF s[Len(s)] \in Whitespace THEN trim_end(SubSeq(s, 1, Len(s) - 1)) ELSE s

trim(s) == trim_end(trim_start(s))

(***************************************************************************)
(* LlmManager::generate (llm.rs:72-151).                                   *)
(*                                                                         *)
(* env is what the runtime answers during one call:                        *)
(*   ctx_ok   new_context succeeds (llm.rs:77)                             *)
(*   fail_at  the number of the decode call that fails for a reason of the *)
(*            runtime (0 is the prefill, g + 1 the submission of generated *)
(*            token g), or -1 when none does.                              *)
(* The value is a record: ok, value (the text, or the error), batches (the *)
(* batches handed to context.decode, in order, the failing one included),  *)
(* sampled (the tokens the sampler returned, in order), generated, and     *)
(* iterations (passes through the loop body).                              *)
(***************************************************************************)
Envs == [ctx_ok : BOOLEAN, fail_at : -1..max_tokens]

Failure(kind, batches, sampled, generated, iterations) ==
    [ok |-> FALSE, value |-> kind, batches |-> batches, sampled |-> sampled,
     generated |-> generated, iterations |-> iterations]

\* llm.rs:92 (tokens.len() + 512).max(1024)
batch_size(n) == Max(n + max_tokens, 2 * max_tokens)

\* llm.rs:104, 143 context.decode(&mut batch): fails when the runtime does, and when
\* the batch does not fit in what is left of the n_ctx cells of the context
decode_ok(n_ctx_, kv, batch, env, number) ==
    /\ env.fail_at # number
    /\ Len(kv) + Len(batch) <= n_ctx_

\* an Execution Context that is kept from one call to the next
new_context_reused == ctxLast

\* llm.rs:74-78 self.model.new_context(..): a context of this call alone, empty
new_context == <<>>

\* llm.rs:75 std::num::NonZeroU32::new(self.n_ctx): None for 0
NonZeroU32_new(n) == IF n = 0 THEN <<>> ELSE <<n>>

\* llm.rs:117 while generated < max_tokens, with the guard one too wide
loop_guard_inclusive(generated) == generated <= max_tokens

\* llm.rs:117 while generated < max_tokens
loop_guard(generated) == generated < max_tokens

\* llm.rs:123-126 with the marker's text appended before the break
at_eog_appending(output, new_token_id) == output \o token_to_str(new_token_id).piece

\* llm.rs:123-126 the break on an end-of-generation marker: the output is left as it is
at_eog(output, new_token_id) == output

\* llm.rs:129-131 with a replacement character pushed when token_to_str fails
append_piece_lossy(output, piece) ==
    IF piece.ok THEN output \o piece.piece ELSE output \o <<"?">>

\* llm.rs:129-131 if let Ok(piece) = ... { output.push_str(&piece) }
append_piece(output, piece) == IF piece.ok THEN output \o piece.piece ELSE output

\* llm.rs:140 with the position counted from the generated tokens alone
gen_pos_restarting(generated, n_tokens) == generated

\* llm.rs:140 generated as i32 + tokens.len() as i32
gen_pos(generated, n_tokens) == generated + n_tokens

\* llm.rs:143-144 with the text produced so far returned when decode fails
on_decode_error_partial(output, batches, sampled, generated, iterations) ==
    [ok |-> TRUE, value |-> trim(output), batches |-> batches, sampled |-> sampled,
     generated |-> generated, iterations |-> iterations]

\* llm.rs:143-144 context.decode(..).context("Failed to decode generated token")?
on_decode_error(output, batches, sampled, generated, iterations) ==
    Failure("Decode", batches, sampled, generated, iterations)

\* llm.rs:117-150 the while loop and the return, from the state
\* st = [kv, output, generated, batches, sampled, iterations]
RECURSIVE generate_loop(_, _, _, _, _)
generate_loop(model, n_ctx_, env, n_tokens, st) ==
    IF ~loop_guard(st.generated)
    THEN [ok |-> TRUE, value |-> trim(st.output), batches |-> st.batches,
          sampled |-> st.sampled, generated |-> st.generated,
          iterations |-> st.iterations]
    ELSE
      LET new_token_id == sample(model, st.kv)
          sampled == Append(st.sampled, new_token_id)
      IN
      IF is_eog_token(new_token_id)
      THEN [ok |-> TRUE, value |-> trim(at_eog(st.output, new_token_id)),
            batches |-> st.batches,
            sampled |-> sampled, generated |-> st.generated,
            iterations |-> st.iterations + 1]
      ELSE
        LET piece == token_to_str(new_token_id)
            output == append_piece(st.output, piece)
            batch == <<[token |-> new_token_id,
                        pos |-> gen_pos(st.generated, n_tokens),
                        logits |-> TRUE]>>
            batches == Append(st.batches, batch)
        IN
        IF ~decode_ok(n_ctx_, st.kv, batch, env, st.generated + 1)
        THEN on_decode_error(output, batches, sampled, st.generated,
                             st.iterations + 1)
        ELSE generate_loop(model, n_ctx_, env, n_tokens,
                 [kv |-> st.kv \o <<new_token_id>>, output |-> output,
                  generated |-> st.generated + 1, batches |-> batches,
                  sampled |-> sampled, iterations |-> st.iterations + 1])

\* llm.rs:96-101 with every prompt position flagged for logits
prefill_batch_all_logits(tokens) ==
    [i \in 1..Len(tokens) |-> [token |-> tokens[i], pos |-> i - 1, logits |-> TRUE]]

\* llm.rs:96-101 the prefill batch: every prompt token at its index, logits on the last
prefill_batch(tokens) ==
    [i \in 1..Len(tokens) |->
        [token |-> tokens[i], pos |-> i - 1, logits |-> (i - 1 = Len(tokens) - 1)]]

\* llm.rs:91-150 the prefill and the loop, for a prompt of at least one token
generate_tokens(eng, tokens, env) ==
    IF Len(tokens) > batch_size(Len(tokens))
    THEN Failure("BatchAdd", <<>>, <<>>, 0, 0)
    ELSE
      LET batch == prefill_batch(tokens) IN
      IF ~decode_ok(eng.n_ctx, new_context, batch, env, 0)
      THEN Failure("Decode", <<batch>>, <<>>, 0, 0)
      ELSE generate_loop(eng.model, eng.n_ctx, env, Len(tokens),
               [kv |-> new_context \o tokens, output |-> <<>>, generated |-> 0,
                batches |-> <<batch>>, sampled |-> <<>>, iterations |-> 0])

\* llm.rs:72-151 without the check of llm.rs:85-87: an empty prompt succeeds with ""
generate_empty_succeeds(eng, prompt, env) ==
    IF NonZeroU32_new(eng.n_ctx) = <<>> THEN Failure("Panic", <<>>, <<>>, 0, 0)
    ELSE IF ~env.ctx_ok THEN Failure("ContextInit", <<>>, <<>>, 0, 0)
    ELSE
      LET tk == str_to_token(eng.model, prompt) IN
      IF ~tk.ok THEN Failure("Tokenize", <<>>, <<>>, 0, 0)
      ELSE IF tk.tokens = <<>>
      THEN [ok |-> TRUE, value |-> <<>>, batches |-> <<>>, sampled |-> <<>>,
            generated |-> 0, iterations |-> 0]
      ELSE generate_tokens(eng, tk.tokens, env)

\* llm.rs:72-151
generate(eng, prompt, env) ==
    IF NonZeroU32_new(eng.n_ctx) = <<>> THEN Failure("Panic", <<>>, <<>>, 0, 0)
    ELSE IF ~env.ctx_ok THEN Failure("ContextInit", <<>>, <<>>, 0, 0)
    ELSE
      LET tk == str_to_token(eng.model, prompt) IN
      IF ~tk.ok THEN Failure("Tokenize", <<>>, <<>>, 0, 0)
      ELSE IF tk.tokens = <<>> THEN Failure("EmptyPrompt", <<>>, <<>>, 0, 0)
      ELSE generate_tokens(eng, tk.tokens, env)

\* llm.rs:153-155 answering false
is_ready_never(eng) == FALSE

\* llm.rs:153-155
is_ready(eng) == TRUE

(***************************************************************************)
(* LlmManager::new (llm.rs:17-45).  load is what the environment answers:  *)
(* backend_ok (LlamaBackend::init), model (what find_model and             *)
(* load_from_file yield: None when no .gguf file is found, "corrupt" when  *)
(* the file does not load, else the loaded model).                         *)
(***************************************************************************)
FileStates == {"missing", "corrupt", "valid"}

\* llm.rs:17-45 with n_ctx: 0 in place of llm.rs:36 (0 asks llama.cpp for the model's default)
new_zero_window(backend_ok, file, model) ==
    IF ~backend_ok THEN [ok |-> FALSE, engine |-> <<>>, error |-> "BackendInit"]
    ELSE IF file = "missing" THEN [ok |-> FALSE, engine |-> <<>>, error |-> "NoModel"]
    ELSE IF file # "valid" THEN [ok |-> FALSE, engine |-> <<>>, error |-> "ModelLoad"]
    ELSE [ok |-> TRUE, engine |-> <<[model |-> model, n_ctx |-> 0]>>, error |-> ""]

\* llm.rs:17-45 with the result of load_from_file (llm.rs:33-34) not checked
new_load_unchecked(backend_ok, file, model) ==
    IF ~backend_ok THEN [ok |-> FALSE, engine |-> <<>>, error |-> "BackendInit"]
    ELSE IF file = "missing" THEN [ok |-> FALSE, engine |-> <<>>, error |-> "NoModel"]
    ELSE [ok |-> TRUE, engine |-> <<[model |-> model, n_ctx |-> n_ctx]>>, error |-> ""]

new(backend_ok, file, model) ==
    IF ~backend_ok THEN [ok |-> FALSE, engine |-> <<>>, error |-> "BackendInit"]
    ELSE IF file = "missing" THEN [ok |-> FALSE, engine |-> <<>>, error |-> "NoModel"]
    ELSE IF file # "valid" THEN [ok |-> FALSE, engine |-> <<>>, error |-> "ModelLoad"]
    ELSE [ok |-> TRUE, engine |-> <<[model |-> model, n_ctx |-> n_ctx]>>, error |-> ""]

(***************************************************************************)
(* Values of the Coordinator's variables while it is not part of the run.  *)
(***************************************************************************)
Callers == 1..NumCallers

NoChan == [st |-> "none", val |-> <<>>]

WorkerIdle ==
    /\ worker = "unspawned"
    /\ queue = <<>>
    /\ inService = <<>>
    /\ caller = [c \in Callers |-> "idle"]
    /\ chan = [c \in Callers |-> NoChan]
    /\ outcome = [c \in Callers |-> <<>>]
    /\ msgOf = [c \in Callers |-> <<>>]
    /\ shutdownSent = FALSE
    /\ loadEnv = <<>>
    /\ enqLog = <<>>
    /\ deqLog = <<>>
    /\ execLog = <<>>
    /\ replyLog = <<>>
    /\ running = {}
    /\ dropped = {}

workerVars == <<worker, queue, inService, caller, chan, outcome, msgOf, shutdownSent,
                loadEnv, enqLog, deqLog, execLog, replyLog, running, dropped>>

\* the variables of the direct calls while no direct call is part of the run
CallsIdle ==
    /\ call = <<>>
    /\ ctxLast = <<>>
    /\ first = <<>>
    /\ earlier = {}

callVars == <<call, ctxLast, first, earlier>>

\* MemoryManager::new (memory.rs:18-23)
MemIdle ==
    /\ messages = <<>>
    /\ memClock = 0
    /\ memBefore = <<>>
    /\ memOp = "new"

memVars == <<messages, memClock, memBefore, memOp>>

\* a map without keys (HashMap::new())
EmptyMap == [k \in {} |-> ""]

\* no filter field given (MemoryFilters::default())
NoFilters == [user_id |-> <<>>, agent_id |-> <<>>, run_id |-> <<>>, metadata |-> EmptyMap]

\* the record of the operation in progress, while there is none
NoStoreOp == [op |-> "none", id |-> "", content |-> <<>>, metadata |-> <<>>,
              filters |-> NoFilters, limit |-> 0,
              ret |-> FALSE, result |-> <<>>, before |-> EmptyMap]

\* MemoryStore::new (memory_store.rs:42-46)
StoreIdle ==
    /\ memories = EmptyMap
    /\ usedIds = {}
    /\ storeOp = NoStoreOp

storeVars == <<memories, usedIds, storeOp>>

\* no SimpleTextSplitter is part of the run
SplitIdle ==
    /\ splitter = <<>>
    /\ splitCall = <<>>

splitVars == <<splitter, splitCall>>

\* the threads of the async runtime that run the commands
Threads == {"t1", "t2"}

\* a thread that runs no command
IdleCmd == [pc |-> "idle", turn |-> 0, arg |-> "", mode |-> "", history |-> <<>>,
            ret |-> "", solo |-> FALSE, seen |-> 0]

\* the AppState that main builds (main.rs:304-308), no command running
CmdIdle ==
    /\ current_mode = "companion"
    /\ conversation_history = <<>>
    /\ history_lock = "free"
    /\ bridge_lock = "free"
    /\ cmd = [t \in Threads |-> IdleCmd]
    /\ ncalls = 0
    /\ appended = <<>>

cmdVars == <<current_mode, conversation_history, history_lock, bridge_lock, cmd, ncalls,
             appended>>

\* the variables the Coordinator and its callers never touch
nonWorkerVars == <<callVars, memVars, cmdVars, storeVars, splitVars>>

(***************************************************************************)
(* SpecGen: an Engine loaded from any model file, and direct calls of      *)
(* generate on it, one after the other, with any prompt and any answers of *)
(* the runtime.                                                            *)
(***************************************************************************)
GenInit ==
    /\ engine \in {new(TRUE, "valid", m).engine : m \in Models}
    /\ CallsIdle
    /\ WorkerIdle
    /\ MemIdle
    /\ CmdIdle
    /\ StoreIdle
    /\ SplitIdle

GenCall ==
    /\ call = <<>>
    /\ \E prompt \in Prompts, env \in Envs :
          call' = <<[prompt |-> prompt, env |-> env,
                     res |-> generate(engine[1], prompt, env)]>>
    /\ UNCHANGED <<engine, ctxLast, first, earlier, workerVars, memVars, cmdVars, storeVars,
                   splitVars>>

GenReturn ==
    /\ call # <<>>
    /\ call' = <<>>
    /\ UNCHANGED <<engine, ctxLast, first, earlier, workerVars, memVars, cmdVars, storeVars,
                   splitVars>>

GenNext == GenCall \/ GenReturn

SpecGen == GenInit /\ [][GenNext]_vars

(***************************************************************************)
(* Properties of generate, checked under SpecGen.                          *)
(***************************************************************************)
\* the text that a sequence of sampled tokens contributes to the output
RECURSIVE PiecesOf(_)
PiecesOf(toks) ==
    IF toks = <<>> THEN <<>>
    ELSE (IF token_to_str(Head(toks)).ok THEN token_to_str(Head(toks)).piece ELSE <<>>)
         \o PiecesOf(Tail(toks))

NoEog(toks) == \A i \in 1..Len(toks) : ~is_eog_token(toks[i])

\* the tokens of the batches before batch number k (what the context holds then)
RECURSIVE TokensBefore(_, _)
TokensBefore(batches, k) ==
    IF k <= 1 THEN <<>>
    ELSE TokensBefore(batches, k - 1)
         \o [i \in 1..Len(batches[k - 1]) |-> batches[k - 1][i].token]

\* every batch the call submitted was accepted by context.decode
SubmissionsSucceed(c) ==
    \A k \in 1..Len(c.res.batches) :
        decode_ok(engine[1].n_ctx, TokensBefore(c.res.batches, k), c.res.batches[k],
                  c.env, k - 1)

C10_EmptyPrompt ==
    call # <<>> =>
        LET tk == str_to_token(engine[1].model, call[1].prompt) IN
        (call[1].env.ctx_ok /\ tk.ok /\ tk.tokens = <<>>
            => /\ ~call[1].res.ok
               /\ call[1].res.value = "EmptyPrompt"
               /\ call[1].res.batches = <<>>)

\* a call whose prompt tokenized to nothing and that ended with EmptyPrompt
C10_Witness ==
    /\ call # <<>>
    /\ call[1].env.ctx_ok
    /\ str_to_token(engine[1].model, call[1].prompt).ok
    /\ str_to_token(engine[1].model, call[1].prompt).tokens = <<>>
    /\ call[1].res.value = "EmptyPrompt"

Front(seq) == SubSeq(seq, 1, Len(seq) - 1)

\* the entries of all the batches of a call, in submission order
RECURSIVE EntriesOf(_)
EntriesOf(batches) ==
    IF batches = <<>> THEN <<>> ELSE Head(batches) \o EntriesOf(Tail(batches))

\* C11: a batch submission that fails ends the call: no batch follows the failed
\* one, the call returns the Decode error, and no text is returned, also when
\* the failed submission is the one after the last budgeted token.
C11_DecodeFatal ==
    call # <<>> =>
        /\ \A k \in 1..(Len(call[1].res.batches) - 1) :
              decode_ok(engine[1].n_ctx, TokensBefore(call[1].res.batches, k),
                        call[1].res.batches[k], call[1].env, k - 1)
        /\ (~SubmissionsSucceed(call[1])
              => ~call[1].res.ok /\ call[1].res.value = "Decode")

\* the submission after the last budgeted token failed, after text was produced
C11_Witness ==
    /\ call # <<>>
    /\ Len(call[1].res.sampled) = max_tokens
    /\ NoEog(call[1].res.sampled)
    /\ PiecesOf(call[1].res.sampled) # <<>>
    /\ Len(call[1].res.batches) = max_tokens + 1
    /\ ~SubmissionsSucceed(call[1])
    /\ ~call[1].res.ok

\* C12: an end-of-generation marker is only ever the last token sampled; when
\* one is sampled the call returns successfully the trimmed text of the tokens
\* sampled before it, in sampling order, and the batches submitted are the
\* prefill and one per token sampled before the marker, none for the marker.
C12_EogStops ==
    call # <<>> =>
        /\ \A i \in 1..(Len(call[1].res.sampled) - 1) :
              ~is_eog_token(call[1].res.sampled[i])
        /\ (/\ call[1].res.sampled # <<>>
            /\ is_eog_token(call[1].res.sampled[Len(call[1].res.sampled)])
            => /\ call[1].res.ok
               /\ call[1].res.value = trim(PiecesOf(Front(call[1].res.sampled)))
               /\ Len(call[1].res.batches) = Len(call[1].res.sampled)
               /\ \A k \in 2..Len(call[1].res.batches) :
                     call[1].res.batches[k][1].token = call[1].res.sampled[k - 1])

\* a call that produced text and then stopped at an end-of-generation marker
C12_Witness ==
    /\ call # <<>>
    /\ Len(call[1].res.sampled) >= 2
    /\ is_eog_token(call[1].res.sampled[Len(call[1].res.sampled)])
    /\ call[1].res.ok
    /\ call[1].res.value # <<>>

\* C13: a sampled token whose text cannot be produced is still submitted as a
\* batch and still counted in the budget, the loop goes on after it, and the
\* call ends as if the token had empty text: with the trimmed text of the other
\* tokens, or with the Decode error of a failed submission.
C13_DetokenizeNonFatal ==
    call # <<>> =>
        LET r == call[1].res IN
        \A i \in 1..Len(r.sampled) :
            ~token_to_str(r.sampled[i]).ok =>
                /\ Len(r.batches) >= i + 1
                /\ r.batches[i + 1][1].token = r.sampled[i]
                /\ Len(r.sampled) <= max_tokens
                /\ (r.ok => /\ r.generated >= i
                            /\ (i < max_tokens => Len(r.sampled) > i)
                            /\ r.value = trim(PiecesOf(
                                  IF is_eog_token(r.sampled[Len(r.sampled)])
                                  THEN Front(r.sampled) ELSE r.sampled)))
                /\ (~r.ok => r.value = "Decode" /\ ~SubmissionsSucceed(call[1]))

\* a successful call in which a token without text was followed by one with text
C13_Witness ==
    /\ call # <<>>
    /\ call[1].res.ok
    /\ Len(call[1].res.sampled) >= 2
    /\ ~token_to_str(call[1].res.sampled[1]).ok
    /\ call[1].res.value # <<>>

\* C14: for a prompt of n >= 1 tokens the first batch submitted holds the n
\* tokens in order at positions 0..n-1 with the logits flag on position n-1
\* only, every later batch holds one entry, and no batch has more than one
\* entry flagged for logits.
C14_PrefillShape ==
    call # <<>> =>
        LET tk == str_to_token(engine[1].model, call[1].prompt)
            r == call[1].res
        IN
        (call[1].env.ctx_ok /\ tk.ok /\ Len(tk.tokens) >= 1
            => /\ r.batches # <<>>
               /\ r.batches[1] = [i \in 1..Len(tk.tokens) |->
                                     [token |-> tk.tokens[i], pos |-> i - 1,
                                      logits |-> (i = Len(tk.tokens))]]
               /\ \A k \in 2..Len(r.batches) : Len(r.batches[k]) = 1
               /\ \A k \in 1..Len(r.batches) :
                     Cardinality({i \in 1..Len(r.batches[k]) :
                                     r.batches[k][i].logits}) <= 1)

\* a call with a prompt of several tokens that went on to generate
C14_Witness ==
    /\ call # <<>>
    /\ Len(call[1].res.batches) >= 2
    /\ Len(call[1].res.batches[1]) >= 2

\* C15: the k-th generated token (from 0) is submitted as a batch of one entry
\* at position prompt length + k with the logits flag set, and the positions of
\* all entries submitted in a call are 0, 1, 2, ... in submission order.
C15_PositionContinuity ==
    call # <<>> =>
        LET r == call[1].res IN
        /\ \A k \in 0..(Len(r.batches) - 2) :
              r.batches[k + 2] = <<[token |-> r.sampled[k + 1],
                                    pos |-> Len(r.batches[1]) + k,
                                    logits |-> TRUE]>>
        /\ \A j \in 1..Len(EntriesOf(r.batches)) : EntriesOf(r.batches)[j].pos = j - 1

\* a call that submitted a prompt of several tokens and then two generated tokens
C15_Witness ==
    /\ call # <<>>
    /\ Len(call[1].res.batches) >= 3
    /\ Len(call[1].res.batches[1]) >= 2
    /\ call[1].res.ok

\* C18: a call with a non-empty prompt that tokenizes ends with a text or with
\* one of the error values of generate, never with a panic, whatever context
\* allocation, batch submission and detokenization answer.
C18_NoPanic ==
    call # <<>> =>
        (/\ call[1].prompt # <<>>
         /\ str_to_token(engine[1].model, call[1].prompt).ok
         => \/ /\ call[1].res.ok
               /\ \A i \in 1..Len(call[1].res.value) :
                     call[1].res.value[i] \in {"a", " ", "<", "/", "s", ">"}
            \/ /\ ~call[1].res.ok
               /\ call[1].res.value \in {"ContextInit", "BatchAdd", "Decode"})

\* a call in which detokenization failed and then a batch submission failed
C18_Witness ==
    /\ call # <<>>
    /\ call[1].prompt # <<>>
    /\ call[1].env.ctx_ok
    /\ \E i \in 1..Len(call[1].res.sampled) : ~token_to_str(call[1].res.sampled[i]).ok
    /\ ~call[1].res.ok
    /\ call[1].res.value = "Decode"

\* C26: every position that a call of generate submits to the Execution
\* Context is less than the context window of the Engine.
C26_AsStated ==
    call # <<>> =>
        \A j \in 1..Len(EntriesOf(call[1].res.batches)) :
            EntriesOf(call[1].res.batches)[j].pos < engine[1].n_ctx

(***************************************************************************)
(* SpecCalls: an Engine and a series of direct calls of generate on it.    *)
(* first keeps the first call, earlier how the calls before the latest one *)
(* ended, ctxLast what the Execution Context of the latest call held when  *)
(* the call returned and the context was dropped.                          *)
(***************************************************************************)
\* model files whose next token does not depend on the context: text, or the end marker
CallModels ==
    {m \in Models : \E s \in {TokA, EogToken} : \A t \in ContextTokens : m.weights[t] = s}

\* the prompts of the series: text of any length up to the bound, and one that
\* the tokenizer rejects
CallPrompts == {p \in Prompts : \A i \in 1..Len(p) : p[i] = "a"} \cup {<<"NUL">>}

\* the tokens of the batches that context.decode accepted during a call
ContextAfter(res) ==
    IF ~res.ok /\ res.value = "Decode"
    THEN TokensBefore(res.batches, Len(res.batches))
    ELSE TokensBefore(res.batches, Len(res.batches) + 1)

CallsInit ==
    /\ engine \in {new(TRUE, "valid", m).engine : m \in CallModels}
    /\ CallsIdle
    /\ WorkerIdle
    /\ MemIdle
    /\ CmdIdle
    /\ StoreIdle
    /\ SplitIdle

\* llm.rs:72-151 one more call of generate on the same Engine
NextCall ==
    /\ \E prompt \in CallPrompts, env \in Envs :
          LET rec == [prompt |-> prompt, env |-> env,
                      res |-> generate(engine[1], prompt, env)]
          IN
          /\ call' = <<rec>>
          /\ first' = IF first = <<>> THEN <<rec>> ELSE first
          /\ ctxLast' = new_context \o ContextAfter(rec.res)
    /\ earlier' = IF call = <<>> THEN earlier ELSE earlier \cup {call[1].res.ok}
    /\ UNCHANGED <<engine, workerVars, memVars, cmdVars, storeVars,
                   splitVars>>

CallsNext == NextCall

SpecCalls == CallsInit /\ [][CallsNext]_vars

SameResult(a, b) ==
    /\ a.ok = b.ok
    /\ a.value = b.value
    /\ a.batches = b.batches
    /\ a.sampled = b.sampled

\* C17: whatever calls were made before it on the same Engine, and however
\* they ended, a call of generate returns what the first call on the Engine
\* returned for the same prompt and the same answers of the runtime.
C17_NoCrossCallState ==
    (/\ call # <<>>
     /\ call[1].prompt = first[1].prompt
     /\ call[1].env = first[1].env)
    => SameResult(call[1].res, first[1].res)

\* a call that repeats the first one after a successful and a failed call, and
\* fills the context window
C17_Witness ==
    /\ call # <<>>
    /\ earlier = {TRUE, FALSE}
    /\ call[1].prompt = first[1].prompt
    /\ call[1].env = first[1].env
    /\ call[1].res.ok
    /\ call[1].res.generated = max_tokens
    /\ Len(ctxLast) >= 3

(***************************************************************************)
(* The Worker Coordinator (specification, sections 4.2 and 5).             *)
(*                                                                         *)
(* A Worker Message is [kind, from, prompt]; from is the caller that holds *)
(* the receiving end of the message's reply channel (0 for Shutdown).      *)
(* A reply channel is [st, val]: "none" (not created), "open" (the sender  *)
(* travels with the message), "sent" (val delivered), "discarded" (the     *)
(* send found the receiver gone), "closed" (sender dropped, nothing sent). *)
(***************************************************************************)
\* model files of the worker runs: one whose text never ends, one that ends at once
EchoModel == [add_bos |-> TRUE, weights |-> [t \in ContextTokens |-> TokA]]
QuietModel == [add_bos |-> FALSE, weights |-> [t \in ContextTokens |-> EogToken]]
StubModels == {EchoModel, QuietModel}

WorkerPrompts == {<<"a">>}

\* what the runtime answers during a generation of the worker runs: no failure, a
\* context that cannot be allocated, a prefill that fails
WorkerEnvs == {e \in Envs : e.fail_at <= 0 /\ (e.ctx_ok \/ e.fail_at = -1)}

ShutdownMsg == [kind |-> "Shutdown", from |-> 0, prompt |-> <<>>]

MessagesOf(c) ==
    {[kind |-> "Generate", from |-> c, prompt |-> p] : p \in WorkerPrompts}
    \cup {[kind |-> "CheckHealth", from |-> c, prompt |-> <<>>]}

Senders(q) == {q[i].from : i \in 1..Len(q)} \ {0}

\* the queue is leaked: the queued reply senders stay alive
drop_queue_leaked(q, ch) == ch

\* the receiving end of the queue is dropped: every queued message is dropped, and
\* with it the sender of its reply channel
drop_queue(q, ch) ==
    [c \in Callers |-> IF c \in Senders(q) THEN [st |-> "closed", val |-> <<>>] ELSE ch[c]]

\* a receive that takes the newest message
recv_newest(q) == [msg |-> q[Len(q)], rest |-> SubSeq(q, 1, Len(q) - 1)]

\* a receive that leaves the message in the queue
recv_peek(q) == [msg |-> Head(q), rest |-> q]

\* the blocking receive: the oldest message leaves the queue
recv(q) == [msg |-> Head(q), rest |-> Tail(q)]

\* a loop that receives while a message is in service
can_recv_in_service(w) == w \in {"idle", "serving"}

\* the loop receives only between two messages
can_recv(w) == w = "idle"

\* Generate: any engine error is wrapped as Generation(details)
wrap(res) ==
    IF res.ok THEN [tag |-> "Ok", val |-> res.value]
    ELSE [tag |-> "Generation", val |-> <<res.value>>]

\* a send on a one-shot reply channel: delivered when the receiver is still there
send(ch, cl, c, reply) ==
    [ch EXCEPT ![c] = IF cl[c] = "waiting" THEN [st |-> "sent", val |-> reply]
                      ELSE [st |-> "discarded", val |-> <<>>]]

\* a loop that treats a failed send as fatal
after_reply_strict(delivered) == IF delivered THEN "idle" ELSE "exited"

\* the loop after a reply: a failed send is a no-op, not an error
after_reply(delivered) == "idle"

\* an await that sees only a delivered value
reply_ready_value_only(st) == st = "sent"

\* the awaited one-shot channel resolves with a value or with its sender dropped
reply_ready(st) == st \in {"sent", "closed"}

WorkerInit ==
    /\ engine = <<>>
    /\ CallsIdle
    /\ MemIdle
    /\ CmdIdle
    /\ StoreIdle
    /\ SplitIdle
    /\ worker = "constructing"
    /\ queue = <<>>
    /\ inService = <<>>
    /\ caller = [c \in Callers |-> "idle"]
    /\ chan = [c \in Callers |-> NoChan]
    /\ outcome = [c \in Callers |-> <<>>]
    /\ msgOf = [c \in Callers |-> <<>>]
    /\ shutdownSent = FALSE
    /\ loadEnv = <<>>
    /\ enqLog = <<>>
    /\ deqLog = <<>>
    /\ execLog = <<>>
    /\ replyLog = <<>>
    /\ running = {}
    /\ dropped = {}

\* Startup: the dedicated thread constructs the Engine itself; on failure it
\* terminates without consuming messages.
Construct ==
    /\ worker = "constructing"
    /\ \E backend_ok \in BOOLEAN, file \in FileStates, model \in StubModels :
         LET r == new(backend_ok, file, model) IN
         /\ loadEnv' = <<[backend_ok |-> backend_ok, file |-> file]>>
         /\ engine' = r.engine
         /\ IF r.ok
            THEN /\ worker' = "idle"
                 /\ UNCHANGED <<queue, chan, dropped>>
            ELSE /\ worker' = "exited"
                 /\ queue' = <<>>
                 /\ chan' = drop_queue(queue, chan)
                 /\ dropped' = dropped \cup Senders(queue)
    /\ UNCHANGED <<nonWorkerVars, inService, caller, outcome, msgOf, shutdownSent,
                   enqLog, deqLog, execLog, replyLog, running>>

\* submit_generation / check_health, first half: build the message and send it
Submit(c) ==
    /\ caller[c] = "idle"
    /\ \E m \in MessagesOf(c) :
         /\ msgOf' = [msgOf EXCEPT ![c] = <<m>>]
         /\ IF worker # "exited"
            THEN /\ queue' = Append(queue, m)
                 /\ enqLog' = Append(enqLog, c)
                 /\ chan' = [chan EXCEPT ![c] = [st |-> "open", val |-> <<>>]]
                 /\ caller' = [caller EXCEPT ![c] = "waiting"]
                 /\ UNCHANGED outcome
            ELSE /\ caller' = [caller EXCEPT ![c] = "done"]
                 /\ outcome' = [outcome EXCEPT
                                   ![c] = <<[tag |-> "WorkerUnavailable", val |-> <<>>]>>]
                 /\ UNCHANGED <<queue, enqLog, chan>>
    /\ UNCHANGED <<engine, nonWorkerVars, worker, inService, shutdownSent, loadEnv,
                   deqLog, execLog, replyLog, running, dropped>>

\* the control path sends Shutdown
SendShutdown ==
    /\ ~shutdownSent
    /\ shutdownSent' = TRUE
    /\ queue' = IF worker # "exited" THEN Append(queue, ShutdownMsg) ELSE queue
    /\ UNCHANGED <<engine, nonWorkerVars, worker, inService, caller, chan, outcome, msgOf,
                   loadEnv, enqLog, deqLog, execLog, replyLog, running, dropped>>

\* submit_generation / check_health, second half: the awaited reply arrives, or
\* the reply channel is found closed
Await(c) ==
    /\ caller[c] = "waiting"
    /\ reply_ready(chan[c].st)
    /\ caller' = [caller EXCEPT ![c] = "done"]
    /\ outcome' = [outcome EXCEPT
                      ![c] = IF chan[c].st = "sent" THEN <<chan[c].val>>
                             ELSE <<[tag |-> "WorkerDisconnected", val |-> <<>>]>>]
    /\ UNCHANGED <<engine, nonWorkerVars, worker, queue, inService, chan, msgOf, shutdownSent,
                   loadEnv, enqLog, deqLog, execLog, replyLog, running, dropped>>

\* the caller gives up: the receiving end of its reply channel is dropped
Abandon(c) ==
    /\ caller[c] = "waiting"
    /\ caller' = [caller EXCEPT ![c] = "abandoned"]
    /\ UNCHANGED <<engine, nonWorkerVars, worker, queue, inService, chan, outcome, msgOf,
                   shutdownSent, loadEnv, enqLog, deqLog, execLog, replyLog, running,
                   dropped>>

\* Generate(req): dequeued, Engine.generate(req.prompt) starts
BeginGenerate ==
    /\ can_recv(worker)
    /\ queue # <<>>
    /\ recv(queue).msg.kind = "Generate"
    /\ queue' = recv(queue).rest
    /\ inService' = <<recv(queue).msg>>
    /\ worker' = "serving"
    /\ deqLog' = Append(deqLog, recv(queue).msg.from)
    /\ execLog' = Append(execLog, recv(queue).msg.from)
    /\ running' = running \cup {recv(queue).msg.from}
    /\ UNCHANGED <<engine, nonWorkerVars, caller, chan, outcome, msgOf, shutdownSent, loadEnv,
                   enqLog, replyLog, dropped>>

\* Generate(req): Engine.generate returns, the Result is delivered on req.reply
FinishGenerate ==
    /\ worker = "serving"
    /\ inService # <<>>
    /\ \E env \in WorkerEnvs :
         LET m == inService[1]
             res == generate(engine[1], m.prompt, env)
         IN  /\ chan' = send(chan, caller, m.from, wrap(res))
             /\ replyLog' = Append(replyLog, m.from)
             /\ running' = running \ {m.from}
             /\ worker' = after_reply(caller[m.from] = "waiting")
    /\ inService' = <<>>
    /\ UNCHANGED <<engine, nonWorkerVars, queue, caller, outcome, msgOf, shutdownSent, loadEnv,
                   enqLog, deqLog, execLog, dropped>>

\* CheckHealth(reply): deliver Engine.is_ready()
ServeCheckHealth ==
    /\ can_recv(worker)
    /\ queue # <<>>
    /\ recv(queue).msg.kind = "CheckHealth"
    /\ queue' = recv(queue).rest
    /\ deqLog' = Append(deqLog, recv(queue).msg.from)
    /\ chan' = send(chan, caller, recv(queue).msg.from,
                    [tag |-> "Health", val |-> <<is_ready(engine[1])>>])
    /\ replyLog' = Append(replyLog, recv(queue).msg.from)
    /\ worker' = after_reply(caller[recv(queue).msg.from] = "waiting")
    /\ UNCHANGED <<engine, nonWorkerVars, inService, caller, outcome, msgOf, shutdownSent,
                   loadEnv, enqLog, execLog, running, dropped>>

\* Shutdown: stop consuming; the thread exits and what is queued is dropped
ServeShutdown ==
    /\ can_recv(worker)
    /\ queue # <<>>
    /\ recv(queue).msg.kind = "Shutdown"
    /\ worker' = "exited"
    /\ queue' = <<>>
    /\ chan' = drop_queue(recv(queue).rest, chan)
    /\ dropped' = dropped \cup Senders(recv(queue).rest)
    /\ UNCHANGED <<engine, nonWorkerVars, inService, caller, outcome, msgOf, shutdownSent,
                   loadEnv, enqLog, deqLog, execLog, replyLog, running>>

WorkerStep ==
    \/ Construct
    \/ BeginGenerate
    \/ FinishGenerate
    \/ ServeCheckHealth
    \/ ServeShutdown

WorkerNext ==
    \/ WorkerStep
    \/ SendShutdown
    \/ \E c \in Callers : Submit(c) \/ Await(c) \/ Abandon(c)

SpecWorker == WorkerInit /\ [][WorkerNext]_vars

\* the dedicated thread is scheduled fairly, and so is a caller whose reply is ready
FairSpecWorker ==
    /\ SpecWorker
    /\ WF_vars(WorkerStep)
    /\ \A c \in Callers : WF_vars(Await(c))

(***************************************************************************)
(* Properties of the Coordinator, checked under SpecWorker (safety) and    *)
(* FairSpecWorker (liveness).                                              *)
(***************************************************************************)
Range(q) == {q[i] : i \in 1..Len(q)}
IsPrefix(p, q) == Len(p) <= Len(q) /\ \A i \in 1..Len(p) : p[i] = q[i]
NoDup(q) == \A i, j \in 1..Len(q) : i # j => q[i] # q[j]
KindOf(c) == IF msgOf[c] = <<>> THEN "" ELSE msgOf[c][1].kind
TagOf(c) == IF outcome[c] = <<>> THEN "" ELSE outcome[c][1].tag
LoadOk == loadEnv # <<>> /\ loadEnv[1].backend_ok /\ loadEnv[1].file = "valid"
LoadFailed == loadEnv # <<>> /\ ~(loadEnv[1].backend_ok /\ loadEnv[1].file = "valid")

\* C1: at most one Engine.generate executes at any instant, it is the one of the
\* message in service, and at most one dequeued message is still unanswered (a
\* message is processed fully before the next is taken).
C1_Exclusion ==
    /\ Cardinality(running) <= 1
    /\ running # {} => (worker = "serving" /\ inService # <<>>
                         /\ running = {inService[1].from})
    /\ Len(deqLog) <= Len(replyLog) + 1
    /\ worker = "idle" => Len(deqLog) = Len(replyLog)

\* a generation is executing while another Generate request waits in the queue
C1_Witness ==
    /\ running # {}
    /\ \E i \in 1..Len(queue) : queue[i].kind = "Generate"

\* C2: messages are dequeued and answered in exactly the order they were enqueued:
\* the dequeue order and the reply order are prefixes of the enqueue order.
C2_Fifo ==
    /\ IsPrefix(deqLog, enqLog)
    /\ IsPrefix(replyLog, enqLog)
    /\ IsPrefix(replyLog, deqLog)

\* two requests were answered, the one enqueued first being answered first
C2_Witness ==
    /\ Len(replyLog) = 2
    /\ replyLog[1] # replyLog[2]
    /\ KindOf(replyLog[1]) = "Generate"
    /\ KindOf(replyLog[2]) = "Generate"

\* C3: a Generate request that was in the queue behind Shutdown when Shutdown was
\* serviced is never dequeued, never executed and never answered; its reply channel
\* is closed, so its caller is not left waiting and resumes with WorkerDisconnected.
C3_ShutdownDrops ==
    \A c \in Callers :
        (LoadOk /\ c \in dropped /\ KindOf(c) = "Generate") =>
            /\ c \notin Range(deqLog)
            /\ c \notin Range(execLog)
            /\ c \notin Range(replyLog)
            /\ chan[c].st = "closed"
            /\ caller[c] = "waiting" => ENABLED Await(c)
            /\ caller[c] = "done" => TagOf(c) = "WorkerDisconnected"

\* a caller whose Generate was queued behind Shutdown resumed with WorkerDisconnected
C3_Witness ==
    \E c \in Callers :
        /\ LoadOk /\ c \in dropped /\ KindOf(c) = "Generate"
        /\ caller[c] = "done" /\ TagOf(c) = "WorkerDisconnected"

\* C4: when Engine construction fails, the thread has exited without an Engine and
\* without ever dequeuing, executing or answering a message; the queue stays empty
\* (nothing sent afterwards enters it), and every caller whose message did not enter
\* the queue has resumed with WorkerUnavailable.
C4_FailedStartup ==
    LoadFailed =>
        /\ worker = "exited"
        /\ engine = <<>>
        /\ deqLog = <<>> /\ execLog = <<>> /\ replyLog = <<>> /\ running = {}
        /\ queue = <<>>
        /\ Range(enqLog) \subseteq dropped
        /\ \A c \in Callers :
              (msgOf[c] # <<>> /\ c \notin Range(enqLog)) =>
                  (caller[c] = "done" /\ TagOf(c) = "WorkerUnavailable")

\* construction failed and a caller that sent afterwards got WorkerUnavailable
C4_Witness ==
    /\ LoadFailed
    /\ \E c \in Callers : caller[c] = "done" /\ TagOf(c) = "WorkerUnavailable"

\* C5: no request is dequeued twice, no request has Engine.generate run twice, and
\* no reply channel is sent on twice.
C5_ServicedOnce ==
    /\ NoDup(deqLog)
    /\ NoDup(execLog)
    /\ NoDup(replyLog)
    /\ \A c \in Callers : chan[c].st \in {"sent", "discarded"} => c \in Range(replyLog)

\* a Generate request was answered and the Coordinator has gone on to the next one
C5_Witness ==
    /\ Len(execLog) = 2
    /\ chan[execLog[1]].st = "sent"

\* C6: under fair scheduling, every waiting caller eventually stops waiting, and a
\* caller that resumed holds exactly one of a reply value, WorkerUnavailable or
\* WorkerDisconnected.
C6_EventuallyAnswered ==
    /\ \A c \in Callers : (caller[c] = "waiting") ~> (caller[c] \in {"done", "abandoned"})
    /\ [](\A c \in Callers :
            caller[c] = "done" =>
                /\ Len(outcome[c]) = 1
                /\ TagOf(c) \in {"Ok", "Generation", "Health",
                                  "WorkerUnavailable", "WorkerDisconnected"})

\* a caller that enqueued during construction resumed after construction failed
C6_Witness ==
    /\ LoadFailed
    /\ \E c \in Callers :
          c \in Range(enqLog) /\ caller[c] = "done" /\ TagOf(c) = "WorkerDisconnected"

\* C7: a dequeued Generate is executed whether or not its caller is still there,
\* and the step that finds the receiver gone discards the result, leaves the queue
\* as it is and returns the Coordinator to its receive.
C7_AbandonedCaller ==
    /\ [](\A c \in Callers :
            (c \in Range(deqLog) /\ KindOf(c) = "Generate") => c \in Range(execLog))
    /\ [][\A c \in Callers :
            (chan[c].st = "open" /\ chan'[c].st # "open" /\ caller[c] = "abandoned"
             /\ c \in Range(deqLog))
                => /\ chan'[c].st = "discarded"
                   /\ worker' = "idle"
                   /\ c \in Range(replyLog')
                   /\ (KindOf(c) = "Generate" => c \in Range(execLog))
                   /\ queue' = queue]_vars

\* the result of an abandoned Generate was discarded and the next request was answered
C7_Witness ==
    /\ Len(replyLog) = 2
    /\ KindOf(replyLog[1]) = "Generate"
    /\ chan[replyLog[1]].st = "discarded"
    /\ chan[replyLog[2]].st = "sent"

\* C8: a serviced CheckHealth replies true; the step that services it leaves the
\* Engine and the generation in progress untouched; and every Generate reply is a
\* result of generate on the Engine for the request's own prompt.
C8_HealthCheck ==
    /\ [](\A c \in Callers :
            /\ (KindOf(c) = "CheckHealth" /\ chan[c].st = "sent")
                   => (chan[c].val.tag = "Health" /\ chan[c].val.val = <<TRUE>>)
            /\ (KindOf(c) = "Generate" /\ chan[c].st = "sent")
                   => \E env \in Envs :
                        chan[c].val = wrap(generate(engine[1], msgOf[c][1].prompt, env)))
    /\ [][\A c \in Callers :
            (KindOf(c) = "CheckHealth" /\ c \notin Range(replyLog)
             /\ c \in Range(replyLog'))
                => UNCHANGED <<engine, inService, running, execLog>>]_vars

\* a CheckHealth was answered true ahead of a Generate that was then answered
C8_Witness ==
    /\ Len(replyLog) = 2
    /\ KindOf(replyLog[1]) = "CheckHealth"
    /\ chan[replyLog[1]].st = "sent"
    /\ chan[replyLog[1]].val.val = <<TRUE>>
    /\ KindOf(replyLog[2]) = "Generate"
    /\ chan[replyLog[2]].st = "sent"


(***************************************************************************)
(* The conversation memory buffer (memory.rs).  A Message is               *)
(* [role, content, timestamp]; the timestamp is the tick of the clock at   *)
(* which add_message ran.                                                  *)
(***************************************************************************)
MemRoles == {"user", "assistant"}

MemContents == {"x", "y"}

\* memory.rs:35-37 while self.messages.len() > self.max_messages { pop_front }
RECURSIVE trim_old(_, _)
trim_old(msgs, max) == IF Len(msgs) > max THEN trim_old(Tail(msgs), max) ELSE msgs

\* memory.rs:25-38 with pop_back in place of pop_front
add_message_pop_back(msgs, role, content, now) ==
    LET pushed == Append(msgs, [role |-> role, content |-> content, timestamp |-> now])
    IN IF Len(pushed) > max_messages THEN SubSeq(pushed, 1, max_messages) ELSE pushed

\* memory.rs:25-38 MemoryManager::add_message
add_message(msgs, role, content, now) ==
    trim_old(Append(msgs, [role |-> role, content |-> content, timestamp |-> now]),
             max_messages)

\* memory.rs:51-53 MemoryManager::clear
clear(msgs) == <<>>

\* memory.rs:55-57 MemoryManager::message_count
message_count(msgs) == Len(msgs)

MemInit ==
    /\ engine = <<>>
    /\ CallsIdle
    /\ WorkerIdle
    /\ MemIdle
    /\ CmdIdle
    /\ StoreIdle
    /\ SplitIdle

AddMessage ==
    /\ memClock < MaxAdds
    /\ \E role \in MemRoles, content \in MemContents :
          messages' = add_message(messages, role, content, memClock + 1)
    /\ memClock' = memClock + 1
    /\ memBefore' = messages
    /\ memOp' = "add_message"
    /\ UNCHANGED <<engine, callVars, workerVars, cmdVars, storeVars,
                   splitVars>>

Clear ==
    /\ messages' = clear(messages)
    /\ memBefore' = messages
    /\ memOp' = "clear"
    /\ UNCHANGED <<memClock, engine, callVars, workerVars, cmdVars, storeVars,
                   splitVars>>

MemNext == AddMessage \/ Clear

SpecMem == MemInit /\ [][MemNext]_vars

\* C20: the buffer never holds more than max_messages messages; an add_message
\* on a full buffer leaves the messages it held, without the oldest one and in
\* the same order, followed by the new message; an add_message on a buffer that
\* is not full evicts nothing.
C20_BoundedBuffer ==
    /\ message_count(messages) <= max_messages
    /\ (memOp = "add_message" =>
          /\ messages # <<>>
          /\ messages[Len(messages)].timestamp = memClock
          /\ Front(messages) = IF Len(memBefore) = max_messages
                               THEN Tail(memBefore) ELSE memBefore)

\* an add_message on a full buffer whose oldest message is not the first ever added
C20_Witness ==
    /\ memOp = "add_message"
    /\ Len(memBefore) = max_messages
    /\ memBefore[1].timestamp > 1

(***************************************************************************)
(* The command layer (main.rs).  A thread of the runtime runs one command  *)
(* at a time; cmd[t] is [pc, turn, arg, mode, history, ret]: the place in  *)
(* the command, the number of the call (which stands for its message, its  *)
(* response and its timestamp), the argument of switch_mode, and the       *)
(* locals mode and history of send_chat_message, and the value returned.   *)
(* solo is history: no other command has run since this one was invoked;   *)
(* seen is history: the number of the last call that was invoked, and so   *)
(* had read the mode if it is a send_chat_message, when this switch_mode   *)
(* stored the new mode.                                                    *)
(* A ConversationEntry is [role, turn, mode]; mode records the mode that   *)
(* the call read.                                                          *)
(***************************************************************************)
Modes == {"companion", "youniverse"}

ModeNames == Modes \cup {"story"}

\* main.rs:182-186 with an unknown name taken as the default mode
parse_mode_default(name) == IF name \in Modes THEN <<name>> ELSE <<"companion">>

\* main.rs:182-186 match new_mode.as_str()
parse_mode(name) == IF name \in Modes THEN <<name>> ELSE <<>>

\* main.rs:143 the 20 of history_len > 20
history_limit == 2 * HistoryPairs

\* main.rs:142-145 with one entry more drained (0..=history_len - 20)
trim_history_one_more(h) ==
    IF Len(h) > history_limit
    THEN SubSeq(h, (Len(h) - history_limit) + 2, Len(h))
    ELSE h

\* main.rs:142-145 with the entries drained from the end
trim_history_oldest(h) ==
    IF Len(h) > history_limit THEN SubSeq(h, 1, history_limit) ELSE h

\* main.rs:142-145 if history_len > 20 { history.drain(0..history_len - 20) }
trim_history(h) ==
    IF Len(h) > history_limit
    THEN SubSeq(h, (Len(h) - history_limit) + 1, Len(h))
    ELSE h

\* main.rs:128-139 the ConversationEntry pushed for the call that c runs
Entry(role, c) == [role |-> role, turn |-> c.turn, mode |-> c.mode]

\* main.rs:244-248 get_current_mode
get_current_mode == current_mode

\* main.rs:222-241 get_conversation_history: the last limit entries, oldest first
get_conversation_history(limit) ==
    SubSeq(conversation_history,
           Max(1, (Len(conversation_history) - limit) + 1), Len(conversation_history))

\* thread t starts the command whose first state is c; the commands that are
\* running are no longer alone
Invoke(t, c) ==
    [u \in Threads |->
        IF u = t THEN [c EXCEPT !.solo = \A v \in Threads \ {t} : cmd[v].pc = "idle"]
        ELSE IF cmd[u].pc = "idle" THEN cmd[u]
        ELSE [cmd[u] EXCEPT !.solo = FALSE]]

CmdInit ==
    /\ engine = <<>>
    /\ CallsIdle
    /\ WorkerIdle
    /\ MemIdle
    /\ CmdIdle
    /\ StoreIdle
    /\ SplitIdle

\* main.rs:73-83 send_chat_message is invoked and reads the mode under its lock
SendReadMode(t) ==
    /\ cmd[t].pc = "idle"
    /\ ncalls < MaxCalls
    /\ ncalls' = ncalls + 1
    /\ cmd' = Invoke(t, [IdleCmd EXCEPT !.pc = "send_clone",
                                        !.turn = ncalls + 1,
                                        !.mode = current_mode])
    /\ UNCHANGED <<current_mode, conversation_history, history_lock, bridge_lock,
                   appended, engine, callVars, workerVars, memVars,
                   storeVars, splitVars>>

\* main.rs:86-88 state.conversation_history.lock().clone()
SendCloneHistory(t) ==
    /\ cmd[t].pc = "send_clone"
    /\ history_lock = "free"
    /\ cmd' = [cmd EXCEPT ![t].pc = "send_generate",
                          ![t].history = conversation_history]
    /\ UNCHANGED <<current_mode, conversation_history, history_lock, bridge_lock,
                   ncalls, appended, engine, callVars, workerVars, memVars,
                   storeVars, splitVars>>

\* main.rs:114 state.python_bridge.lock()
SendLockBridge(t) ==
    /\ cmd[t].pc = "send_generate"
    /\ bridge_lock = "free"
    /\ bridge_lock' = t
    /\ cmd' = [cmd EXCEPT ![t].pc = "send_generating"]
    /\ UNCHANGED <<current_mode, conversation_history, history_lock, ncalls,
                   appended, engine, callVars, workerVars, memVars,
                   storeVars, splitVars>>

\* main.rs:115-121 bridge.generate(..) returns; an error leaves the command
SendGenerated(t) ==
    /\ cmd[t].pc = "send_generating"
    /\ bridge_lock' = "free"
    /\ \E ok \in BOOLEAN :
          cmd' = IF ok THEN [cmd EXCEPT ![t].pc = "send_push"]
                 ELSE [cmd EXCEPT ![t].pc = "done",
                                  ![t].ret = "Failed to generate response"]
    /\ UNCHANGED <<current_mode, conversation_history, history_lock, ncalls,
                   appended, engine, callVars, workerVars, memVars,
                   storeVars, splitVars>>

\* main.rs:127-133 the history lock is taken and the user entry pushed
SendPushUser(t) ==
    /\ cmd[t].pc = "send_push"
    /\ history_lock = "free"
    /\ history_lock' = t
    /\ conversation_history' = Append(conversation_history, Entry("user", cmd[t]))
    /\ appended' = Append(appended, Entry("user", cmd[t]))
    /\ cmd' = [cmd EXCEPT ![t].pc = "send_push_assistant"]
    /\ UNCHANGED <<current_mode, bridge_lock, ncalls, engine, callVars, workerVars,
                   memVars,
                   storeVars, splitVars>>

\* main.rs:134-139 the assistant entry is pushed
SendPushAssistant(t) ==
    /\ cmd[t].pc = "send_push_assistant"
    /\ conversation_history' = Append(conversation_history, Entry("assistant", cmd[t]))
    /\ appended' = Append(appended, Entry("assistant", cmd[t]))
    /\ cmd' = [cmd EXCEPT ![t].pc = "send_trim"]
    /\ UNCHANGED <<current_mode, history_lock, bridge_lock, ncalls, engine, callVars,
                   workerVars, memVars,
                   storeVars, splitVars>>

\* main.rs:142-146 the history is trimmed and its lock released
SendTrim(t) ==
    /\ cmd[t].pc = "send_trim"
    /\ conversation_history' = trim_history(conversation_history)
    /\ history_lock' = "free"
    /\ cmd' = [cmd EXCEPT ![t].pc = "send_log"]
    /\ UNCHANGED <<current_mode, bridge_lock, ncalls, appended, engine, callVars,
                   workerVars, memVars,
                   storeVars, splitVars>>

\* main.rs:149-165 bridge.log_conversation(..) under the bridge lock, and the return
SendLog(t) ==
    /\ cmd[t].pc = "send_log"
    /\ bridge_lock = "free"
    /\ \E ok \in BOOLEAN :
          cmd' = [cmd EXCEPT ![t].pc = "done",
                             ![t].ret = IF ok THEN "Ok"
                                        ELSE "Failed to log conversation"]
    /\ UNCHANGED <<current_mode, conversation_history, history_lock, bridge_lock,
                   ncalls, appended, engine, callVars, workerVars, memVars,
                   storeVars, splitVars>>

\* main.rs:178-186 switch_mode is invoked; an unknown name is an error
SwitchParse(t) ==
    /\ cmd[t].pc = "idle"
    /\ ncalls < MaxCalls
    /\ ncalls' = ncalls + 1
    /\ \E new_mode \in ModeNames :
          cmd' = IF parse_mode(new_mode) = <<>>
                 THEN Invoke(t, [IdleCmd EXCEPT !.pc = "done",
                                                !.turn = ncalls + 1,
                                                !.arg = new_mode,
                                                !.ret = "Unknown mode"])
                 ELSE Invoke(t, [IdleCmd EXCEPT !.pc = "switch_set",
                                                !.turn = ncalls + 1,
                                                !.arg = new_mode])
    /\ UNCHANGED <<current_mode, conversation_history, history_lock, bridge_lock,
                   appended, engine, callVars, workerVars, memVars,
                   storeVars, splitVars>>

\* main.rs:188-191 *current_mode = mode.clone() under the mode lock
SwitchSetMode(t) ==
    /\ cmd[t].pc = "switch_set"
    /\ current_mode' = parse_mode(cmd[t].arg)[1]
    /\ cmd' = [cmd EXCEPT ![t].pc = "switch_clear", ![t].seen = ncalls]
    /\ UNCHANGED <<conversation_history, history_lock, bridge_lock, ncalls, appended,
                   engine, callVars, workerVars, memVars,
                   storeVars, splitVars>>

\* main.rs:194-200 history.clear() under the history lock, and the return
SwitchClear(t) ==
    /\ cmd[t].pc = "switch_clear"
    /\ history_lock = "free"
    /\ conversation_history' = <<>>
    /\ appended' = <<>>
    /\ cmd' = [cmd EXCEPT ![t].pc = "done", ![t].ret = "Ok"]
    /\ UNCHANGED <<current_mode, history_lock, bridge_lock, ncalls, engine, callVars,
                   workerVars, memVars,
                   storeVars, splitVars>>

\* the value returned reaches the caller and the thread is free again
Return(t) ==
    /\ cmd[t].pc = "done"
    /\ cmd' = [cmd EXCEPT ![t] = IdleCmd]
    /\ UNCHANGED <<current_mode, conversation_history, history_lock, bridge_lock,
                   ncalls, appended, engine, callVars, workerVars, memVars,
                   storeVars, splitVars>>

CmdNext ==
    \E t \in Threads :
        \/ SendReadMode(t)
        \/ SendCloneHistory(t)
        \/ SendLockBridge(t)
        \/ SendGenerated(t)
        \/ SendPushUser(t)
        \/ SendPushAssistant(t)
        \/ SendTrim(t)
        \/ SendLog(t)
        \/ SwitchParse(t)
        \/ SwitchSetMode(t)
        \/ SwitchClear(t)
        \/ Return(t)

SpecCmd == CmdInit /\ [][CmdNext]_vars

\* the last n elements of a sequence, all of it when it is shorter
LastN(seq, n) == SubSeq(seq, Max(1, (Len(seq) - n) + 1), Len(seq))

\* C19: whenever no command holds the history lock, the conversation history
\* holds at most history_limit entries, and they are the latest entries pushed
\* since the history was last cleared, in the order of the pushes.
C19_BoundedHistory ==
    history_lock = "free" =>
        /\ Len(conversation_history) <= history_limit
        /\ conversation_history = LastN(appended, history_limit)

\* the lock is free after more entries were pushed than the history keeps, by
\* commands that ran at the same time
C19_Witness ==
    /\ history_lock = "free"
    /\ Len(appended) > history_limit
    /\ Len(conversation_history) = history_limit
    /\ \E t \in Threads : cmd[t].pc = "send_push"

\* C21: a switch_mode call with an unknown name returns the error at once and
\* changes neither the mode nor the history; a call with a valid name is not
\* refused, sets the mode to the name, then empties the history and returns
\* Ok; and when no other command ran during the call, get_current_mode
\* returns the name and get_conversation_history returns nothing at its return.
C21_SwitchMode ==
    [][\A t \in Threads :
          /\ (cmd[t].pc = "idle" /\ cmd'[t].arg \in ModeNames \ Modes
                => /\ cmd'[t].pc = "done"
                   /\ cmd'[t].ret = "Unknown mode"
                   /\ current_mode' = current_mode
                   /\ conversation_history' = conversation_history)
          /\ (cmd[t].pc = "idle" /\ cmd'[t].arg \in Modes => cmd'[t].pc # "done")
          /\ (cmd[t].pc = "switch_set" /\ cmd'[t].pc # "switch_set"
                => current_mode' = cmd[t].arg)
          /\ (cmd[t].pc = "switch_clear" /\ cmd'[t].pc # "switch_clear"
                => /\ conversation_history' = <<>>
                   /\ cmd'[t].pc = "done"
                   /\ cmd'[t].ret = "Ok")
          /\ (/\ cmd[t].pc = "done"
              /\ cmd[t].arg \in Modes
              /\ cmd[t].solo
              /\ cmd'[t].pc = "idle"
              => /\ cmd[t].ret = "Ok"
                 /\ get_current_mode = cmd[t].arg
                 /\ get_conversation_history(history_limit) = <<>>)
      ]_vars

\* a switch to the other mode, run alone after earlier commands, is about to return
C21_Witness ==
    \E t \in Threads :
        /\ cmd[t].pc = "done"
        /\ cmd[t].arg = "youniverse"
        /\ cmd[t].solo
        /\ cmd[t].turn >= 2
        /\ cmd[t].ret = "Ok"
        /\ current_mode = "youniverse"

\* C27: when a switch_mode call with a valid name returns, the conversation
\* history holds no entry of a send_chat_message call that read the mode
\* before the switch stored the new one.
C27_AsStated ==
    \A t \in Threads :
        (cmd[t].pc = "done" /\ cmd[t].arg \in Modes /\ cmd[t].ret = "Ok")
            => \A i \in 1..Len(conversation_history) :
                  conversation_history[i].turn > cmd[t].seen

\* C28: whenever no command holds the history lock, the conversation history
\* has an even number of entries, and each entry at an odd place is a user
\* entry followed at once by the assistant entry of the same call.
C28_TurnPairing ==
    history_lock = "free" =>
        /\ Len(conversation_history) % 2 = 0
        /\ \A i \in 1..Len(conversation_history) :
              i % 2 = 1 =>
                 /\ conversation_history[i].role = "user"
                 /\ conversation_history[i + 1].role = "assistant"
                 /\ conversation_history[i + 1].turn = conversation_history[i].turn

\* the history was trimmed, holds whole turns, and a switch_mode waits to clear it
C28_Witness ==
    /\ history_lock = "free"
    /\ Len(appended) > history_limit
    /\ conversation_history # <<>>
    /\ \E t \in Threads : cmd[t].pc = "switch_clear"

\* C29: when a send_chat_message call during which no other command ran
\* returns an error, from the generation or from log_conversation, the
\* conversation history is what it was when the call cloned it.
C29_AsStated ==
    \A t \in Threads :
        (/\ cmd[t].pc = "done"
         /\ cmd[t].arg = ""
         /\ cmd[t].ret # "Ok"
         /\ cmd[t].solo)
        => conversation_history = cmd[t].history

(***************************************************************************)
(* The memory store (memory_store.rs).  A MemoryItem is [id, content,      *)
(* user_id, agent_id, run_id, metadata, created_at, updated_at]; an        *)
(* Option is <<>> (None) or <<x>> (Some(x)); a HashMap is a function from  *)
(* the keys it holds.  SystemTime::now() is any tick: the system clock may *)
(* stand still between two readings and may be set back.                   *)
(***************************************************************************)
StoreIds == {"m1", "m2"}

UserIds == {"u1", "u2"}

AgentIds == {"a1"}

RunIds == {"r1"}

\* the readings of the system clock, in ticks
Times == {0, 1}

\* the session identifiers that callers give to add
Scopes == {[user_id |-> <<>>, agent_id |-> <<>>, run_id |-> <<>>],
           [user_id |-> <<"u1">>, agent_id |-> <<>>, run_id |-> <<>>],
           [user_id |-> <<"u1">>, agent_id |-> <<"a1">>, run_id |-> <<>>],
           [user_id |-> <<"u2">>, agent_id |-> <<"a1">>, run_id |-> <<"r1">>]}

Opt(S) == {<<>>} \cup {<<x>> : x \in S}

\* the metadata that callers give to add and to a filter, and to update
AddMetadata == {EmptyMap, [k \in {"tag"} |-> "x"]}

UpdateMetadata == {[k \in {"tag"} |-> "y"]}

Filters == [user_id : Opt(UserIds), agent_id : Opt(AgentIds), run_id : Opt(RunIds),
            metadata : AddMetadata]

\* HashMap::insert
insert(m, k, v) == [x \in DOMAIN m \cup {k} |-> IF x = k THEN v ELSE m[x]]

\* HashMap::extend
extend(m, n) == [x \in DOMAIN m \cup DOMAIN n |-> IF x \in DOMAIN n THEN n[x] ELSE m[x]]

\* HashMap::remove
remove(m, k) == [x \in DOMAIN m \ {k} |-> m[x]]

\* memory_store.rs:83-91 the session identifiers are added to the metadata
with_session_ids(metadata, user_id, agent_id, run_id) ==
    LET m1 == IF user_id # <<>> THEN insert(metadata, "user_id", user_id[1]) ELSE metadata
        m2 == IF agent_id # <<>> THEN insert(m1, "agent_id", agent_id[1]) ELSE m1
    IN IF run_id # <<>> THEN insert(m2, "run_id", run_id[1]) ELSE m2

\* memory_store.rs:71-106 MemoryStore::add, with the id and the time it drew
add(store, id, content, user_id, agent_id, run_id, metadata, now) ==
    insert(store, id,
           [id |-> id, content |-> content, user_id |-> user_id, agent_id |-> agent_id,
            run_id |-> run_id,
            metadata |-> with_session_ids(metadata, user_id, agent_id, run_id),
            created_at |-> now, updated_at |-> now])

\* memory_store.rs:115-117 MemoryStore::get
get(store, memory_id) == IF memory_id \in DOMAIN store THEN <<store[memory_id]>> ELSE <<>>

\* memory_store.rs:240-270 MemoryStore::matches_filters
matches_filters(memory, filters) ==
    /\ (filters.user_id # <<>> => memory.user_id = filters.user_id)
    /\ (filters.agent_id # <<>> => memory.agent_id = filters.agent_id)
    /\ (filters.run_id # <<>> => memory.run_id = filters.run_id)
    /\ \A key \in DOMAIN filters.metadata :
          /\ key \in DOMAIN memory.metadata
          /\ memory.metadata[key] = filters.metadata[key]

\* the orders in which HashMap::values may visit the memories of a store
RECURSIVE Orders(_)
Orders(ids) ==
    IF ids = {} THEN {<<>>}
    ELSE UNION {{<<i>> \o o : o \in Orders(ids \ {i})} : i \in ids}

\* memory_store.rs:131 .filter(..).collect(), over the memories in the order visited
RECURSIVE filter_matching(_, _, _)
filter_matching(store, order, filters) ==
    IF order = <<>> THEN <<>>
    ELSE (IF matches_filters(store[Head(order)], filters)
          THEN <<store[Head(order)]>> ELSE <<>>)
         \o filter_matching(store, Tail(order), filters)

\* one step of a stable sort by created_at, newest first: m goes behind the
\* memories that are not older than it
RECURSIVE insert_sorted(_, _)
insert_sorted(sorted, m) ==
    IF sorted = <<>> THEN <<m>>
    ELSE IF Head(sorted).created_at >= m.created_at
         THEN <<Head(sorted)>> \o insert_sorted(Tail(sorted), m)
         ELSE <<m>> \o sorted

\* memory_store.rs:135 results.sort_by(|a, b| b.created_at.cmp(&a.created_at))
RECURSIVE sort_newest_first(_)
sort_newest_first(results) ==
    IF results = <<>> THEN <<>>
    ELSE insert_sorted(sort_newest_first(Front(results)), results[Len(results)])

\* memory_store.rs:138 .take(limit)
take(results, limit) == SubSeq(results, 1, IF limit < Len(results) THEN limit ELSE Len(results))

\* memory_store.rs:127-139 with the limit applied before the sort
get_all_limit_first(store, filters, limit, order) ==
    sort_newest_first(take(filter_matching(store, order, filters), limit))

\* memory_store.rs:127-139 MemoryStore::get_all
get_all(store, filters, limit, order) ==
    take(sort_newest_first(filter_matching(store, order, filters)), limit)

\* memory_store.rs:186-204 with the given metadata put in place of the existing
update_replacing(store, memory_id, content, metadata, now) ==
    IF memory_id \in DOMAIN store
    THEN [ret |-> TRUE,
          store |-> [store EXCEPT ![memory_id] =
                       [@ EXCEPT !.content = IF content # <<>> THEN content[1] ELSE @,
                                 !.metadata = IF metadata # <<>> THEN metadata[1] ELSE @,
                                 !.updated_at = now]]]
    ELSE [ret |-> FALSE, store |-> store]

\* memory_store.rs:186-204 MemoryStore::update
update(store, memory_id, content, metadata, now) ==
    IF memory_id \in DOMAIN store
    THEN [ret |-> TRUE,
          store |-> [store EXCEPT ![memory_id] =
                       [@ EXCEPT !.content = IF content # <<>> THEN content[1] ELSE @,
                                 !.metadata = IF metadata # <<>>
                                              THEN extend(@, metadata[1]) ELSE @,
                                 !.updated_at = now]]]
    ELSE [ret |-> FALSE, store |-> store]

\* memory_store.rs:213-215 with every memory removed
delete_clearing(store, memory_id) ==
    [ret |-> memory_id \in DOMAIN store,
     store |-> IF memory_id \in DOMAIN store THEN EmptyMap ELSE store]

\* memory_store.rs:213-215 MemoryStore::delete
delete(store, memory_id) ==
    [ret |-> memory_id \in DOMAIN store, store |-> remove(store, memory_id)]

\* memory_store.rs:273-275 MemoryStore::count
count(store) == Cardinality(DOMAIN store)

StoreInit ==
    /\ engine = <<>>
    /\ CallsIdle
    /\ WorkerIdle
    /\ MemIdle
    /\ CmdIdle
    /\ StoreIdle
    /\ SplitIdle

Add ==
    /\ storeOp = NoStoreOp
    /\ \E id \in StoreIds \ usedIds, scope \in Scopes, metadata \in AddMetadata,
          now \in Times :
          /\ memories' = add(memories, id, "c", scope.user_id, scope.agent_id,
                             scope.run_id, metadata, now)
          /\ usedIds' = usedIds \cup {id}
          /\ storeOp' = [NoStoreOp EXCEPT !.op = "add", !.id = id, !.before = memories]
    /\ UNCHANGED <<engine, callVars, workerVars, memVars, cmdVars,
                   splitVars>>

GetAll ==
    /\ storeOp = NoStoreOp
    /\ \E filters \in Filters, limit \in 0..Cardinality(StoreIds),
          order \in Orders(DOMAIN memories) :
          storeOp' = [NoStoreOp EXCEPT !.op = "get_all", !.filters = filters,
                                       !.limit = limit,
                                       !.before = memories,
                                       !.result = get_all(memories, filters, limit, order)]
    /\ UNCHANGED <<memories, usedIds, engine, callVars, workerVars, memVars, cmdVars,
                   splitVars>>

Update ==
    /\ storeOp = NoStoreOp
    /\ \E memory_id \in StoreIds, content \in Opt({"d"}), metadata \in Opt(UpdateMetadata),
          now \in Times :
          LET r == update(memories, memory_id, content, metadata, now) IN
          /\ memories' = r.store
          /\ storeOp' = [NoStoreOp EXCEPT !.op = "update", !.id = memory_id,
                                          !.content = content, !.metadata = metadata,
                                          !.ret = r.ret,
                                          !.before = memories]
    /\ UNCHANGED <<usedIds, engine, callVars, workerVars, memVars, cmdVars,
                   splitVars>>

Delete ==
    /\ storeOp = NoStoreOp
    /\ \E memory_id \in StoreIds :
          LET r == delete(memories, memory_id) IN
          /\ memories' = r.store
          /\ storeOp' = [NoStoreOp EXCEPT !.op = "delete", !.id = memory_id,
                                          !.ret = r.ret, !.before = memories]
    /\ UNCHANGED <<usedIds, engine, callVars, workerVars, memVars, cmdVars,
                   splitVars>>

\* the call returns and its caller takes the result
StoreReturn ==
    /\ storeOp # NoStoreOp
    /\ storeOp' = NoStoreOp
    /\ UNCHANGED <<memories, usedIds, engine, callVars, workerVars, memVars, cmdVars,
                   splitVars>>

StoreNext == Add \/ GetAll \/ Update \/ Delete \/ StoreReturn

SpecStore == StoreInit /\ [][StoreNext]_vars

\* the ids of the memories of a store that have the value of every filter field given
Matching(store, filters) ==
    {id \in DOMAIN store :
        /\ (filters.user_id # <<>> => store[id].user_id = filters.user_id)
        /\ (filters.agent_id # <<>> => store[id].agent_id = filters.agent_id)
        /\ (filters.run_id # <<>> => store[id].run_id = filters.run_id)
        /\ \A key \in DOMAIN filters.metadata :
              /\ key \in DOMAIN store[id].metadata
              /\ store[id].metadata[key] = filters.metadata[key]}

\* C22: get_all returns stored memories that match every filter field given,
\* each once, as many as match but no more than limit, no memory before one
\* created later than it, and no memory left out was created later than one
\* returned.
C22_GetAll ==
    storeOp.op = "get_all" =>
        LET r == storeOp.result
            match == Matching(storeOp.before, storeOp.filters)
        IN
        /\ \A i \in 1..Len(r) : r[i].id \in match /\ r[i] = storeOp.before[r[i].id]
        /\ \A i, j \in 1..Len(r) : i # j => r[i].id # r[j].id
        /\ Len(r) <= storeOp.limit
        /\ Len(r) = IF Cardinality(match) < storeOp.limit
                    THEN Cardinality(match) ELSE storeOp.limit
        /\ \A i, j \in 1..Len(r) : i < j => r[i].created_at >= r[j].created_at
        /\ \A id \in match :
              (\A i \in 1..Len(r) : r[i].id # id)
                 => \A i \in 1..Len(r) : r[i].created_at >= storeOp.before[id].created_at

\* a get_all with a filter that two memories of different age match, cut by the limit
C22_Witness ==
    /\ storeOp.op = "get_all"
    /\ storeOp.filters.user_id # <<>>
    /\ storeOp.limit = 1
    /\ Len(storeOp.result) = 1
    /\ Cardinality(Matching(storeOp.before, storeOp.filters)) = 2
    /\ \E id \in DOMAIN storeOp.before :
          storeOp.before[id].created_at < storeOp.result[1].created_at

\* C23: update returns true exactly when the id is stored; on false the store
\* is as before; on true the content is the new content if one was given and
\* the old one otherwise, the metadata holds the given keys with the given
\* values and the other keys as before, and the id, the session identifiers,
\* the creation time and every other memory are as before.
C23_Update ==
    storeOp.op = "update" =>
        LET b == storeOp.before
            id == storeOp.id
        IN
        /\ storeOp.ret = (id \in DOMAIN b)
        /\ (~storeOp.ret => memories = b)
        /\ (storeOp.ret =>
              LET old == b[id]
                  upd == memories[id]
                  given == IF storeOp.metadata # <<>> THEN storeOp.metadata[1] ELSE EmptyMap
              IN
              /\ DOMAIN memories = DOMAIN b
              /\ \A o \in DOMAIN b \ {id} : memories[o] = b[o]
              /\ upd.id = old.id
              /\ upd.created_at = old.created_at
              /\ upd.user_id = old.user_id
              /\ upd.agent_id = old.agent_id
              /\ upd.run_id = old.run_id
              /\ upd.content = IF storeOp.content # <<>> THEN storeOp.content[1]
                               ELSE old.content
              /\ DOMAIN upd.metadata = DOMAIN old.metadata \cup DOMAIN given
              /\ \A k \in DOMAIN given : upd.metadata[k] = given[k]
              /\ \A k \in DOMAIN old.metadata \ DOMAIN given :
                    upd.metadata[k] = old.metadata[k])

\* an update with metadata and without content, of one of two memories, whose
\* metadata held a key that the update gives and a key that it does not give
C23_Witness ==
    /\ storeOp.op = "update"
    /\ storeOp.ret
    /\ storeOp.content = <<>>
    /\ storeOp.metadata # <<>>
    /\ Cardinality(DOMAIN storeOp.before) = 2
    /\ {"tag", "user_id"} \subseteq DOMAIN storeOp.before[storeOp.id].metadata

\* C24: delete returns true exactly when the id is stored; after a true the id
\* is not stored, count is one less and every other memory is as before;
\* after a false the store is as before; and a delete of the same id after it
\* returns false.
C24_Delete ==
    storeOp.op = "delete" =>
        LET b == storeOp.before
            id == storeOp.id
        IN
        /\ storeOp.ret = (id \in DOMAIN b)
        /\ (storeOp.ret =>
              /\ get(memories, id) = <<>>
              /\ count(memories) = count(b) - 1
              /\ \A o \in DOMAIN b \ {id} : get(memories, o) = <<b[o]>>)
        /\ (~storeOp.ret => memories = b)
        /\ ~delete(memories, id).ret

\* a delete of one of two memories
C24_Witness ==
    /\ storeOp.op = "delete"
    /\ storeOp.ret
    /\ count(storeOp.before) = 2
    /\ count(memories) = 1

(***************************************************************************)
(* SimpleTextSplitter (text_chunker.rs:220-259).  A text is a sequence of  *)
(* characters; split_text works on its UTF-8 bytes, and a slice that does  *)
(* not begin and end on a character boundary panics.                       *)
(***************************************************************************)
TextChars == {"a", "b", "eacute"}

Texts == SeqsUpTo(TextChars, MaxTextLen)

\* the UTF-8 encoding of a character: the accented letter takes two bytes
Utf8(c) == IF c = "eacute" THEN <<"C3", "A9">> ELSE <<c>>

\* str as bytes
RECURSIVE Bytes(_)
Bytes(text) == IF text = <<>> THEN <<>> ELSE Utf8(Head(text)) \o Bytes(Tail(text))

\* str::is_char_boundary: 0, the length, and every offset where a character begins
is_char_boundary(text, index) ==
    \E k \in 0..Len(text) : Len(Bytes(SubSeq(text, 1, k))) = index

\* text_chunker.rs:228-237 SimpleTextSplitter::new: the assert panics, <<>>
SimpleTextSplitter_new(chunk_size, chunk_overlap) ==
    IF chunk_overlap < chunk_size
    THEN <<[chunk_size |-> chunk_size, chunk_overlap |-> chunk_overlap]>>
    ELSE <<>>

\* usize::saturating_sub
saturating_sub(a, b) == IF a > b THEN a - b ELSE 0

\* text_chunker.rs:244-255 the loop of split_text, from start with the chunks so far
RECURSIVE split_loop(_, _, _, _)
split_loop(self, text, start, chunks) ==
    IF ~(start < Len(Bytes(text))) THEN [ok |-> TRUE, chunks |-> chunks]
    ELSE
      LET end == IF start + self.chunk_size < Len(Bytes(text))
                 THEN start + self.chunk_size ELSE Len(Bytes(text))
      IN
      IF ~is_char_boundary(text, start) \/ ~is_char_boundary(text, end)
      THEN [ok |-> FALSE, chunks |-> chunks]
      ELSE split_loop(self, text,
                      start + saturating_sub(self.chunk_size, self.chunk_overlap),
                      Append(chunks, SubSeq(Bytes(text), start + 1, end)))

\* text_chunker.rs:240-258 SimpleTextSplitter::split_text; ok is FALSE for a panic
split_text(self, text) == split_loop(self, text, 0, <<>>)

SplitInit ==
    /\ engine = <<>>
    /\ CallsIdle
    /\ WorkerIdle
    /\ MemIdle
    /\ CmdIdle
    /\ StoreIdle
    /\ splitter \in {SimpleTextSplitter_new(chunk_size, chunk_overlap) :
                        chunk_size \in 1..MaxChunkSize,
                        chunk_overlap \in 0..MaxChunkSize} \ {<<>>}
    /\ splitCall = <<>>

SplitText ==
    /\ splitCall = <<>>
    /\ \E text \in Texts :
          splitCall' = <<[text |-> text, res |-> split_text(splitter[1], text)]>>
    /\ UNCHANGED <<splitter, engine, callVars, workerVars, memVars, cmdVars, storeVars>>

SplitReturn ==
    /\ splitCall # <<>>
    /\ splitCall' = <<>>
    /\ UNCHANGED <<splitter, engine, callVars, workerVars, memVars, cmdVars, storeVars>>

SplitNext == SplitText \/ SplitReturn

SpecSplit == SplitInit /\ [][SplitNext]_vars

\* the first n elements of a sequence, all of it when it is shorter
FirstN(seq, n) == SubSeq(seq, 1, IF n < Len(seq) THEN n ELSE Len(seq))

\* C25: every chunk that split_text returns is at most chunk_size long, and
\* for every two consecutive chunks the last chunk_overlap characters of the
\* earlier one are the first chunk_overlap characters of the later one.
C25_AsStated ==
    (splitCall # <<>> /\ splitCall[1].res.ok) =>
        LET chunks == splitCall[1].res.chunks IN
        /\ \A i \in 1..Len(chunks) : Len(chunks[i]) <= splitter[1].chunk_size
        /\ \A i \in 1..(Len(chunks) - 1) :
              LastN(chunks[i], splitter[1].chunk_overlap)
                 = FirstN(chunks[i + 1], splitter[1].chunk_overlap)

====
